---- MODULE Spec2Model ----
(***************************************************************************)
(* A model of analytics.py: the quadkey decoder, the two Mercator          *)
(* projections, the tile-vertex construction, the orthodrome length and    *)
(* the three attribute searches.                                           *)
(*                                                                         *)
(* Every call runs in its own frame fr[t] (Python locals), moves through   *)
(* the statements of its function (pc[t] names the source line about to    *)
(* run) and ends with ret[t], a returned value or a raised exception.      *)
(* stdout is the process-wide output stream print() appends to.            *)
(*                                                                         *)
(* Numbers.  Python ints are unbounded and are modelled by Integers.       *)
(* Floating-point Mercator coordinates are modelled exactly, as reals of   *)
(* the form  f(arg) + off * U  where f(arg) is the projection formula      *)
(* applied to an input given in whole degrees and U is half the edge       *)
(* length of a zoom-16 tile (tile_length[16]/2): every table entry is an   *)
(* exact power-of-two multiple of U, in the source's doubles as well.      *)
(* Rounding of doubles is not modelled.                                    *)
(***************************************************************************)
EXTENDS Integers, Sequences, FiniteSets, TLC

VARIABLES pc, fr, ret, stdout

vars == <<pc, fr, ret, stdout>>

(***************************** bounds ***************************************)
\* longest quadkey decoded in the sequential specification
MaxLen == 3
\* largest number of edges / nodes / graphs searched
MaxElems == 2
\* how far outside the table's domain the zoom levels tried reach
ZoomSlack == 1
\* number of calls in flight in the concurrent specification
NCalls == 2

(************************ program constants *********************************)
FirstZoom == 1
LastZoom == 16
earth_radius == 6378137

(***************************** inputs ***************************************)
Calls == 1..NCalls
\* the caller of the sequential specification: the first call
Main == CHOOSE t \in Calls : \A u \in Calls : t <= u

\* '5' stands for every character outside '0'..'3': the decoder treats all
\* of them alike (each fails the four equality tests)
Chars == {"0", "1", "2", "3", "5"}
ValidDigits == {"0", "1", "2", "3"}
Quadkeys == UNION {[1..n -> Chars] : n \in 0..MaxLen}
ConcQuadkeys == {<<"1">>, <<"2", "0">>, <<"3", "5">>}

Lons == {-180, 0, 13}
Lats == {-91, -90, -45, 0, 52, 90, 91}
ConcLons == {13}
ConcLats == {52}
Zooms == (FirstZoom - ZoomSlack)..(LastZoom + ZoomSlack)
ConcZooms == {LastZoom, LastZoom + 1}

Keys == {"a", "b"}
Vals == {1, 2}
\* attribute mappings: partial functions from keys to values
Attrs == UNION {[S -> Vals] : S \in SUBSET Keys}
\* keyword arguments, in the order given: (key, value) pairs with distinct keys
Kwargs == {<<>>} \cup {<<<<k, v>>>> : k \in Keys, v \in Vals}
          \cup {<<<<k1, v1>>, <<k2, v2>>>> :
                   <<k1, v1, k2, v2>> \in
                      {q \in Keys \X Vals \X Keys \X Vals : q[1] # q[3]}}

(************************** return values ***********************************)
NoRet == [kind |-> "none"]
Return(v) == [kind |-> "return", value |-> v]
Raise(e, k) == [kind |-> "raise", exc |-> e, key |-> k]

Idle == [fn |-> "none"]

\* statement t of a call ends: control moves to label l with frame f
Goto(t, l, f) ==
    /\ pc' = [pc EXCEPT ![t] = l]
    /\ fr' = [fr EXCEPT ![t] = f]

(*************************** integer bits ***********************************)
RECURSIVE BitOr(_, _)
\* Python's a | b on non-negative ints
BitOr(a, b) ==
    IF a = 0 THEN b
    ELSE IF b = 0 THEN a
    ELSE (IF a % 2 = 1 \/ b % 2 = 1 THEN 1 ELSE 0) + 2 * BitOr(a \div 2, b \div 2)

\* mask = 1 << (i-1)
MaskOffByOne(i) == 2 ^ i
Mask(i) == 2 ^ (i - 1)

\* bit k of v (not program code: used to state the claims)
Bit(v, k) == (v \div (2 ^ k)) % 2

(******************** quadkey_to_tile_coordinates ***************************)
\* the call: quadkey bound to the argument, no local assigned yet; `it` is
\* the state of the iterator range(tile_size, 0, -1): the next value it yields;
\* `iters` is not a local of the program: it counts the loop bodies entered
Call_quadkey(t, Q) ==
    /\ pc[t] = "idle"
    /\ \E q \in Q :
          Goto(t, "qk78", [fn |-> "quadkey_to_tile_coordinates", quadkey |-> q,
                           tile_size |-> 0, x |-> 0, y |-> 0, it |-> 0, i |-> 0,
                           mask |-> 0, digit |-> "", iters |-> 0])
    /\ UNCHANGED <<ret, stdout>>

\* tile_size = len(quadkey)
qk78(t) ==
    /\ pc[t] = "qk78"
    /\ Goto(t, "qk79", [fr[t] EXCEPT !.tile_size = Len(fr[t].quadkey)])
    /\ UNCHANGED <<ret, stdout>>

\* x = y = 0, and the for statement builds range(tile_size, 0, -1)
qk79(t) ==
    /\ pc[t] = "qk79"
    /\ Goto(t, "qk80", [fr[t] EXCEPT !.x = 0, !.y = 0, !.it = fr[t].tile_size])
    /\ UNCHANGED <<ret, stdout>>

\* for i in range(tile_size, 0, -1): the next i, or the loop ends
qk80(t) ==
    /\ pc[t] = "qk80"
    /\ IF fr[t].it > 0
          THEN Goto(t, "qk81", [fr[t] EXCEPT !.i = fr[t].it, !.it = fr[t].it - 1,
                                             !.iters = fr[t].iters + 1])
          ELSE Goto(t, "qk96", fr[t])
    /\ UNCHANGED <<ret, stdout>>

\* mask = 1 << (i-1)
qk81(t) ==
    /\ pc[t] = "qk81"
    /\ Goto(t, "qk82", [fr[t] EXCEPT !.mask = Mask(fr[t].i)])
    /\ UNCHANGED <<ret, stdout>>

\* digit = quadkey[tile_size - i]   (Python indexes from 0, TLA+ from 1)
qk82(t) ==
    /\ pc[t] = "qk82"
    /\ Goto(t, "qk83", [fr[t] EXCEPT
                           !.digit = fr[t].quadkey[(fr[t].tile_size - fr[t].i) + 1]])
    /\ UNCHANGED <<ret, stdout>>

\* if(digit == '0'): continue
qk83(t) ==
    /\ pc[t] = "qk83"
    /\ Goto(t, IF fr[t].digit = "0" THEN "qk80" ELSE "qk85", fr[t])
    /\ UNCHANGED <<ret, stdout>>

\* if(digit == '1'):
qk85(t) ==
    /\ pc[t] = "qk85"
    /\ Goto(t, IF fr[t].digit = "1" THEN "qk86" ELSE "qk88", fr[t])
    /\ UNCHANGED <<ret, stdout>>

\* x |= mask as if x were one module-level variable written by every call
qk86Shared(t) ==
    /\ pc[t] = "qk86"
    /\ pc' = [pc EXCEPT ![t] = "qk80"]
    /\ fr' = [u \in Calls |->
                IF fr[u].fn = "quadkey_to_tile_coordinates"
                   THEN [fr[u] EXCEPT !.x = BitOr(fr[u].x, fr[t].mask)]
                   ELSE fr[u]]
    /\ UNCHANGED <<ret, stdout>>

\* x |= mask; continue
qk86(t) ==
    /\ pc[t] = "qk86"
    /\ Goto(t, "qk80", [fr[t] EXCEPT !.x = BitOr(fr[t].x, fr[t].mask)])
    /\ UNCHANGED <<ret, stdout>>

\* if(digit == '2'):
qk88(t) ==
    /\ pc[t] = "qk88"
    /\ Goto(t, IF fr[t].digit = "2" THEN "qk89" ELSE "qk91", fr[t])
    /\ UNCHANGED <<ret, stdout>>

\* y |= mask; continue
qk89(t) ==
    /\ pc[t] = "qk89"
    /\ Goto(t, "qk80", [fr[t] EXCEPT !.y = BitOr(fr[t].y, fr[t].mask)])
    /\ UNCHANGED <<ret, stdout>>

\* if(digit == '3'):
qk91(t) ==
    /\ pc[t] = "qk91"
    /\ Goto(t, IF fr[t].digit = "3" THEN "qk92" ELSE "qk95", fr[t])
    /\ UNCHANGED <<ret, stdout>>

\* x |= mask
qk92(t) ==
    /\ pc[t] = "qk92"
    /\ Goto(t, "qk93", [fr[t] EXCEPT !.x = BitOr(fr[t].x, fr[t].mask)])
    /\ UNCHANGED <<ret, stdout>>

\* y |= mask; continue
qk93(t) ==
    /\ pc[t] = "qk93"
    /\ Goto(t, "qk80", [fr[t] EXCEPT !.y = BitOr(fr[t].y, fr[t].mask)])
    /\ UNCHANGED <<ret, stdout>>

\* an invalid digit that ends the loop instead of proceeding
qk95Break(t) ==
    /\ pc[t] = "qk95"
    /\ Goto(t, "qk96", fr[t])
    /\ stdout' = Append(stdout, "[ERROR] Invalid quadkey digit sequence.")
    /\ UNCHANGED ret

\* print('[ERROR] Invalid quadkey digit sequence.'), the last statement of
\* the loop body: the loop goes on with the next i
qk95(t) ==
    /\ pc[t] = "qk95"
    /\ Goto(t, "qk80", fr[t])
    /\ stdout' = Append(stdout, "[ERROR] Invalid quadkey digit sequence.")
    /\ UNCHANGED ret

\* return (x, y)
qk96(t) ==
    /\ pc[t] = "qk96"
    /\ pc' = [pc EXCEPT ![t] = "done"]
    /\ ret' = [ret EXCEPT ![t] = Return(<<fr[t].x, fr[t].y>>)]
    /\ UNCHANGED <<fr, stdout>>

quadkey_to_tile_coordinates(t) ==
    \/ qk78(t) \/ qk79(t) \/ qk80(t) \/ qk81(t) \/ qk82(t) \/ qk83(t)
    \/ qk85(t) \/ qk86(t) \/ qk88(t) \/ qk89(t) \/ qk91(t) \/ qk92(t)
    \/ qk93(t) \/ qk95(t) \/ qk96(t)

(************************ Mercator coordinates *******************************)
\* A Mercator coordinate: cls "fin" is the real  f(arg) + off * U  (see the
\* head of the module); "ninf" and "nan" are the doubles -inf and NaN.
\* arg is the input in whole degrees, axis the formula it went through and
\* radius the earth radius the formula used.
\* x = earth_radius*lon*np.pi/180
MercX(R, lon) == [axis |-> "x", cls |-> "fin", arg |-> lon, radius |-> R, off |-> 0]

\* y = earth_radius*np.log(np.tan(np.pi/4 + lat*np.pi/360)) in doubles: at
\* lat = -90 the tangent is 0.0 and np.log gives -inf (with a warning, no
\* exception); beyond +/-90 the tangent is negative and np.log gives nan;
\* at lat = 90 the tangent of the double nearest pi/2 is 1.6e16, a finite y
MercY(R, lat) ==
    [axis |-> "y",
     cls |-> IF lat = -90 THEN "ninf"
             ELSE IF lat < -90 \/ lat > 90 THEN "nan"
             ELSE "fin",
     arg |-> lat, radius |-> R, off |-> 0]

\* m + k (k in units of U): -inf and nan absorb a finite addend
Plus(m, k) == IF m.cls = "fin" THEN [m EXCEPT !.off = @ + k] ELSE m

\* lon = x / earth_radius * 180 / np.pi, as a term over the Mercator x
LonOf(R, x) == [deg_of |-> x, radius |-> R]
\* lat = (2*np.arctan(np.exp(y / earth_radius)) - np.pi/2) * 180 / np.pi
LatOf(R, y) == [deg_of |-> y, radius |-> R]

\* the function as its callers see it: returns (y, x); no check of lat comes
\* before the computation
spherical_to_mercator_coordinates(lon, lat) ==
    <<MercY(earth_radius, lat), MercX(earth_radius, lon)>>

\* the function as its callers see it: returns (lon, lat)
mercator_to_spherical_coordinates(y, x) ==
    <<LonOf(earth_radius, x), LatOf(earth_radius, y)>>

\* vincenty((lat1, lon1), (lat2, lon2))*1000: vincenty is a library outside
\* the repository, kept as a term over its arguments
Vincenty(p1, p2) == [vincenty |-> <<p1, p2>>]
Times(v, k) == [times |-> k, of |-> v]
orthodrome_length(lat1, lon1, lat2, lon2) ==
    Times(Vincenty(<<lat1, lon1>>, <<lat2, lon2>>), 1000)

Unset == [cls |-> "unset"]

\* the three functions called on their own, statement by statement
Call_spherical_to_mercator(t, LO, LA) ==
    /\ pc[t] = "idle"
    /\ \E lon \in LO, lat \in LA :
          Goto(t, "sm109", [fn |-> "spherical_to_mercator_coordinates",
                            lon |-> lon, lat |-> lat, earth_radius |-> 0,
                            x |-> Unset, y |-> Unset])
    /\ UNCHANGED <<ret, stdout>>

\* earth_radius = 6378137
sm109(t) ==
    /\ pc[t] = "sm109"
    /\ Goto(t, "sm110", [fr[t] EXCEPT !.earth_radius = earth_radius])
    /\ UNCHANGED <<ret, stdout>>

\* x = earth_radius*lon*np.pi/180
sm110(t) ==
    /\ pc[t] = "sm110"
    /\ Goto(t, "sm111", [fr[t] EXCEPT !.x = MercX(fr[t].earth_radius, fr[t].lon)])
    /\ UNCHANGED <<ret, stdout>>

\* y = earth_radius*np.log(np.tan(np.pi/4 + lat*np.pi/360))
sm111(t) ==
    /\ pc[t] = "sm111"
    /\ Goto(t, "sm112", [fr[t] EXCEPT !.y = MercY(fr[t].earth_radius, fr[t].lat)])
    /\ UNCHANGED <<ret, stdout>>

\* return y, x
sm112(t) ==
    /\ pc[t] = "sm112"
    /\ pc' = [pc EXCEPT ![t] = "done"]
    /\ ret' = [ret EXCEPT ![t] = Return(<<fr[t].y, fr[t].x>>)]
    /\ UNCHANGED <<fr, stdout>>

spherical_to_mercator_call(t) == sm109(t) \/ sm110(t) \/ sm111(t) \/ sm112(t)

\* the arguments tried are projections of the points above, moved by up to U
Call_mercator_to_spherical(t, LO, LA) ==
    /\ pc[t] = "idle"
    /\ \E lon \in LO, lat \in LA, k \in {-1, 0, 1} :
          Goto(t, "ms125", [fn |-> "mercator_to_spherical_coordinates",
                            y |-> Plus(MercY(earth_radius, lat), k),
                            x |-> Plus(MercX(earth_radius, lon), k),
                            earth_radius |-> 0, lon |-> Unset, lat |-> Unset])
    /\ UNCHANGED <<ret, stdout>>

\* earth_radius = 6378137
ms125(t) ==
    /\ pc[t] = "ms125"
    /\ Goto(t, "ms126", [fr[t] EXCEPT !.earth_radius = earth_radius])
    /\ UNCHANGED <<ret, stdout>>

\* lon = x / earth_radius * 180 / np.pi
ms126(t) ==
    /\ pc[t] = "ms126"
    /\ Goto(t, "ms127", [fr[t] EXCEPT !.lon = LonOf(fr[t].earth_radius, fr[t].x)])
    /\ UNCHANGED <<ret, stdout>>

\* lat = (2 * np.arctan(np.exp(y / earth_radius)) - np.pi / 2) * 180 / np.pi
ms127(t) ==
    /\ pc[t] = "ms127"
    /\ Goto(t, "ms128", [fr[t] EXCEPT !.lat = LatOf(fr[t].earth_radius, fr[t].y)])
    /\ UNCHANGED <<ret, stdout>>

\* return lon, lat
ms128(t) ==
    /\ pc[t] = "ms128"
    /\ pc' = [pc EXCEPT ![t] = "done"]
    /\ ret' = [ret EXCEPT ![t] = Return(<<fr[t].lon, fr[t].lat>>)]
    /\ UNCHANGED <<fr, stdout>>

mercator_to_spherical_call(t) == ms125(t) \/ ms126(t) \/ ms127(t) \/ ms128(t)

Call_orthodrome_length(t, LO, LA) ==
    /\ pc[t] = "idle"
    /\ \E lon1 \in LO, lat1 \in LA, lon2 \in LO, lat2 \in LA :
          Goto(t, "ol185", [fn |-> "orthodrome_length", lat1 |-> lat1,
                            lon1 |-> lon1, lat2 |-> lat2, lon2 |-> lon2,
                            length |-> Unset])
    /\ UNCHANGED <<ret, stdout>>

\* length = vincenty((lat1, lon1), (lat2, lon2))*1000
ol185(t) ==
    /\ pc[t] = "ol185"
    /\ Goto(t, "ol186", [fr[t] EXCEPT !.length =
           Times(Vincenty(<<fr[t].lat1, fr[t].lon1>>, <<fr[t].lat2, fr[t].lon2>>), 1000)])
    /\ UNCHANGED <<ret, stdout>>

\* return length
ol186(t) ==
    /\ pc[t] = "ol186"
    /\ pc' = [pc EXCEPT ![t] = "done"]
    /\ ret' = [ret EXCEPT ![t] = Return(fr[t].length)]
    /\ UNCHANGED <<fr, stdout>>

orthodrome_length_call(t) == ol185(t) \/ ol186(t)

(*************************** get_tile_vertices ******************************)
\* the dict literal of lines 144-161 with its domain one entry too long
TileLengthTableWide == [z \in FirstZoom..(LastZoom + 1) |-> 2 ^ ((LastZoom + 1) - z)]
\* the dict literal of lines 144-161, in units of U: entry 16 is 2 U and
\* every entry is twice the next
TileLengthTable == [z \in FirstZoom..LastZoom |-> 2 ^ ((LastZoom + 1) - z)]

\* length/2: exact, in doubles as here
Half(length) == length \div 2

Call_get_tile_vertices(t, LO, LA, ZS) ==
    /\ pc[t] = "idle"
    /\ \E lon \in LO, lat \in LA, z \in ZS :
          Goto(t, "gv144", [fn |-> "get_tile_vertices", lon |-> lon, lat |-> lat,
                            tile_size |-> z, tile_length |-> <<>>, length |-> 0,
                            y |-> Unset, x |-> Unset,
                            p0 |-> <<>>, p1 |-> <<>>, p2 |-> <<>>, p3 |-> <<>>])
    /\ UNCHANGED <<ret, stdout>>

\* tile_length = {1: ..., 16: ...}: a dict built anew, local to the call
gv144(t) ==
    /\ pc[t] = "gv144"
    /\ Goto(t, "gv162", [fr[t] EXCEPT !.tile_length = TileLengthTable])
    /\ UNCHANGED <<ret, stdout>>

\* length = tile_length[tile_size]: a key the dict lacks raises KeyError
gv162(t) ==
    /\ pc[t] = "gv162"
    /\ IF fr[t].tile_size \in DOMAIN fr[t].tile_length
          THEN /\ Goto(t, "gv163",
                       [fr[t] EXCEPT !.length = fr[t].tile_length[fr[t].tile_size]])
               /\ UNCHANGED ret
          ELSE /\ pc' = [pc EXCEPT ![t] = "raised"]
               /\ ret' = [ret EXCEPT ![t] = Raise("KeyError", fr[t].tile_size)]
               /\ UNCHANGED fr
    /\ UNCHANGED stdout

\* (y, x) = spherical_to_mercator_coordinates(lon, lat)
gv163(t) ==
    /\ pc[t] = "gv163"
    /\ LET yx == spherical_to_mercator_coordinates(fr[t].lon, fr[t].lat)
       IN  Goto(t, "gv164", [fr[t] EXCEPT !.y = yx[1], !.x = yx[2]])
    /\ UNCHANGED <<ret, stdout>>

\* p0 = mercator_to_spherical_coordinates(y + length/2, x - length/2)
gv164(t) ==
    /\ pc[t] = "gv164"
    /\ Goto(t, "gv165", [fr[t] EXCEPT !.p0 =
           mercator_to_spherical_coordinates(Plus(fr[t].y, Half(fr[t].length)),
                                             Plus(fr[t].x, -Half(fr[t].length)))])
    /\ UNCHANGED <<ret, stdout>>

\* p1 = mercator_to_spherical_coordinates(y + length/2, x + length/2)
gv165(t) ==
    /\ pc[t] = "gv165"
    /\ Goto(t, "gv166", [fr[t] EXCEPT !.p1 =
           mercator_to_spherical_coordinates(Plus(fr[t].y, Half(fr[t].length)),
                                             Plus(fr[t].x, Half(fr[t].length)))])
    /\ UNCHANGED <<ret, stdout>>

\* p2 = mercator_to_spherical_coordinates(y - length/2, x - length/2)
gv166(t) ==
    /\ pc[t] = "gv166"
    /\ Goto(t, "gv167", [fr[t] EXCEPT !.p2 =
           mercator_to_spherical_coordinates(Plus(fr[t].y, -Half(fr[t].length)),
                                             Plus(fr[t].x, -Half(fr[t].length)))])
    /\ UNCHANGED <<ret, stdout>>

\* p3 built with the sign of the y offset flipped
gv167UpperRow(t) ==
    /\ pc[t] = "gv167"
    /\ Goto(t, "gv168", [fr[t] EXCEPT !.p3 =
           mercator_to_spherical_coordinates(Plus(fr[t].y, Half(fr[t].length)),
                                             Plus(fr[t].x, Half(fr[t].length)))])
    /\ UNCHANGED <<ret, stdout>>

\* p3 = mercator_to_spherical_coordinates(y - length/2, x + length/2)
gv167(t) ==
    /\ pc[t] = "gv167"
    /\ Goto(t, "gv168", [fr[t] EXCEPT !.p3 =
           mercator_to_spherical_coordinates(Plus(fr[t].y, -Half(fr[t].length)),
                                             Plus(fr[t].x, Half(fr[t].length)))])
    /\ UNCHANGED <<ret, stdout>>

\* return p0, p1, p2, p3
gv168(t) ==
    /\ pc[t] = "gv168"
    /\ pc' = [pc EXCEPT ![t] = "done"]
    /\ ret' = [ret EXCEPT ![t] = Return(<<fr[t].p0, fr[t].p1, fr[t].p2, fr[t].p3>>)]
    /\ UNCHANGED <<fr, stdout>>

get_tile_vertices(t) ==
    \/ gv144(t) \/ gv162(t) \/ gv163(t) \/ gv164(t) \/ gv165(t) \/ gv166(t)
    \/ gv167(t) \/ gv168(t)

(***************************** the searches *********************************)
\* Python values that are not numbers or strings carry their type
Tuple(s) == [py |-> "tuple", elts |-> s]
\* a networkx graph object; .graph is its attribute dict
Graph(name, attrs) == [py |-> "Graph", name |-> name, graph |-> attrs]

\* what graph.edges.data() yields for attribute dicts ds: (id1, id2, data)
EdgeItems(ds) == [k \in DOMAIN ds |-> Tuple(<<k, k + 1, ds[k]>>)]
\* what graph.nodes.data() yields: (id, data)
NodeItems(ds) == [k \in DOMAIN ds |-> Tuple(<<k, ds[k]>>)]
\* the list graphs
GraphItems(ds) == [k \in DOMAIN ds |-> Graph(k, ds[k])]

\* the attribute dict the condition subscripts: data, or graph.graph
DataOf(item) == IF item.py = "Graph" THEN item.graph ELSE item.elts[Len(item.elts)]

\* any() in the place of all()
RECURSIVE AnyOf(_, _)
AnyOf(data, kwargs) ==
    IF kwargs = <<>> THEN [v |-> "False", key |-> ""]
    ELSE LET key == kwargs[1][1]
             value == kwargs[1][2]
         IN  IF key \notin DOMAIN data THEN [v |-> "KeyError", key |-> key]
             ELSE IF data[key] = value THEN [v |-> "True", key |-> ""]
             ELSE AnyOf(data, Tail(kwargs))

RECURSIVE AllOf(_, _)
\* all(data[key] == value for key, value in kwargs.items()): the generator is
\* consumed in the order of kwargs; data[key] raises KeyError on a key the
\* dict lacks; all() stops at the first False, leaving later keys unread
AllOf(data, kwargs) ==
    IF kwargs = <<>> THEN [v |-> "True", key |-> ""]
    ELSE LET key == kwargs[1][1]
             value == kwargs[1][2]
         IN  IF key \notin DOMAIN data THEN [v |-> "KeyError", key |-> key]
             ELSE IF data[key] # value THEN [v |-> "False", key |-> ""]
             ELSE AllOf(data, Tail(kwargs))

Call_search(t, fn, l) ==
    /\ pc[t] = "idle"
    /\ \E n \in 0..MaxElems :
          \E ds \in [1..n -> Attrs], kw \in Kwargs :
             Goto(t, l, [fn |-> fn, kwargs |-> kw,
                         items |-> CASE fn = "search_edges" -> EdgeItems(ds)
                                     [] fn = "search_nodes" -> NodeItems(ds)
                                     [] fn = "search_graphs" -> GraphItems(ds),
                         it |-> 0, cur |-> Tuple(<<>>), result |-> <<>>])
    /\ UNCHANGED <<ret, stdout>>

\* edges = [] (nodes = [], _graphs = []), and the for statement takes the iterator
SearchInit(t, l, lfor) ==
    /\ pc[t] = l
    /\ Goto(t, lfor, [fr[t] EXCEPT !.result = <<>>, !.it = 1])
    /\ UNCHANGED <<ret, stdout>>

\* for ... in ...: the next item, or the loop ends
SearchFor(t, l, lif, lret) ==
    /\ pc[t] = l
    /\ IF fr[t].it <= Len(fr[t].items)
          THEN Goto(t, lif, [fr[t] EXCEPT !.cur = fr[t].items[fr[t].it],
                                          !.it = fr[t].it + 1])
          ELSE Goto(t, lret, fr[t])
    /\ UNCHANGED <<ret, stdout>>

\* if (all(...)): the KeyError of a missing key leaves the function
SearchIf(t, l, lapp, lfor) ==
    /\ pc[t] = l
    /\ LET a == AllOf(DataOf(fr[t].cur), fr[t].kwargs)
       IN  IF a.v = "KeyError"
              THEN /\ pc' = [pc EXCEPT ![t] = "raised"]
                   /\ ret' = [ret EXCEPT ![t] = Raise("KeyError", a.key)]
                   /\ UNCHANGED fr
              ELSE /\ Goto(t, IF a.v = "True" THEN lapp ELSE lfor, fr[t])
                   /\ UNCHANGED ret
    /\ UNCHANGED stdout

\* edges.append((id1, id2, data)), nodes.append((id, data)): the tuple read
\* from the iterator, built again; _graphs.append(graph): the graph itself
SearchAppend(t, l, lfor) ==
    /\ pc[t] = l
    /\ Goto(t, lfor, [fr[t] EXCEPT !.result = Append(fr[t].result, fr[t].cur)])
    /\ UNCHANGED <<ret, stdout>>

\* return edges (nodes, _graphs)
SearchReturn(t, l) ==
    /\ pc[t] = l
    /\ pc' = [pc EXCEPT ![t] = "done"]
    /\ ret' = [ret EXCEPT ![t] = Return(fr[t].result)]
    /\ UNCHANGED <<fr, stdout>>

search_edges(t) ==
    \/ SearchInit(t, "se27", "se28")
    \/ SearchFor(t, "se28", "se29", "se31")
    \/ SearchIf(t, "se29", "se30", "se28")
    \/ SearchAppend(t, "se30", "se28")
    \/ SearchReturn(t, "se31")

search_nodes(t) ==
    \/ SearchInit(t, "sn44", "sn45")
    \/ SearchFor(t, "sn45", "sn46", "sn48")
    \/ SearchIf(t, "sn46", "sn47", "sn45")
    \/ SearchAppend(t, "sn47", "sn45")
    \/ SearchReturn(t, "sn48")

search_graphs(t) ==
    \/ SearchInit(t, "sg61", "sg62")
    \/ SearchFor(t, "sg62", "sg63", "sg65")
    \/ SearchIf(t, "sg63", "sg64", "sg62")
    \/ SearchAppend(t, "sg64", "sg62")
    \/ SearchReturn(t, "sg65")

(**************************** specifications ********************************)
Init ==
    /\ pc = [t \in Calls |-> "idle"]
    /\ fr = [t \in Calls |-> Idle]
    /\ ret = [t \in Calls |-> NoRet]
    /\ stdout = <<>>

\* one caller, one call at a time, over the wide input sets
Next ==
    \/ Call_quadkey(Main, Quadkeys)
    \/ quadkey_to_tile_coordinates(Main)
    \/ Call_spherical_to_mercator(Main, Lons, Lats)
    \/ spherical_to_mercator_call(Main)
    \/ Call_mercator_to_spherical(Main, Lons, Lats)
    \/ mercator_to_spherical_call(Main)
    \/ Call_orthodrome_length(Main, Lons, Lats)
    \/ orthodrome_length_call(Main)
    \/ Call_get_tile_vertices(Main, Lons, Lats, Zooms)
    \/ get_tile_vertices(Main)
    \/ Call_search(Main, "search_edges", "se27")
    \/ search_edges(Main)
    \/ Call_search(Main, "search_nodes", "sn44")
    \/ search_nodes(Main)
    \/ Call_search(Main, "search_graphs", "sg61")
    \/ search_graphs(Main)

Spec == Init /\ [][Next]_vars

\* the core operations called from NCalls threads at once, their statements
\* interleaved in every order
NextConc ==
    \E t \in Calls :
       \/ Call_quadkey(t, ConcQuadkeys)
       \/ quadkey_to_tile_coordinates(t)
       \/ Call_spherical_to_mercator(t, ConcLons, ConcLats)
       \/ spherical_to_mercator_call(t)
       \/ Call_mercator_to_spherical(t, ConcLons, ConcLats)
       \/ mercator_to_spherical_call(t)
       \/ Call_orthodrome_length(t, ConcLons, ConcLats)
       \/ orthodrome_length_call(t)
       \/ Call_get_tile_vertices(t, ConcLons, ConcLats, ConcZooms)
       \/ get_tile_vertices(t)

SpecConc == Init /\ [][NextConc]_vars
(******************************* claims *************************************)
Decoding(t) == fr[t].fn = "quadkey_to_tile_coordinates"
Ended(t) == pc[t] \in {"done", "raised"}
AllValid(q) == \A k \in DOMAIN q : q[k] \in ValidDigits

\* the digit semantics at string index k (from 0) of quadkey q of length n
DigitBits(q, k, x, y) ==
    LET n == Len(q)
        d == q[k + 1]
    IN  /\ Bit(x, (n - 1) - k) = (IF d \in {"1", "3"} THEN 1 ELSE 0)
        /\ Bit(y, (n - 1) - k) = (IF d \in {"2", "3"} THEN 1 ELSE 0)

\* C1: a quadkey of length n >= 1 with all characters in '0'..'3' decodes to
\* (x, y) where, for every index k, bit n-1-k of x is set exactly when the
\* character is '1' or '3' and bit n-1-k of y exactly when it is '2' or '3';
\* "123" gives (5, 3), "13" gives (3, 1), "0" gives (0, 0), "3" gives (1, 1)
C1_DigitSemantics ==
    \A t \in Calls :
       (Decoding(t) /\ pc[t] = "done" /\ Len(fr[t].quadkey) >= 1
          /\ AllValid(fr[t].quadkey)) =>
          LET q == fr[t].quadkey
              x == ret[t].value[1]
              y == ret[t].value[2]
          IN  /\ ret[t].kind = "return"
              /\ \A k \in 0..(Len(q) - 1) : DigitBits(q, k, x, y)
              /\ (q = <<"1", "2", "3">> => <<x, y>> = <<5, 3>>)
              /\ (q = <<"1", "3">> => <<x, y>> = <<3, 1>>)
              /\ (q = <<"0">> => <<x, y>> = <<0, 0>>)
              /\ (q = <<"3">> => <<x, y>> = <<1, 1>>)

C1_Witness ==
    /\ Decoding(Main) /\ pc[Main] = "done"
    /\ fr[Main].quadkey = <<"1", "2", "3">>
    /\ ret[Main] = Return(<<5, 3>>)

\* C2: decoding a quadkey with a character outside '0'..'3' ends in a
\* failure and never returns a coordinate pair
C2_InvalidDigitFails ==
    \A t \in Calls :
       (Decoding(t) /\ Ended(t) /\ ~AllValid(fr[t].quadkey)) =>
          ret[t].kind = "raise"

\* C10: in the decode loop a character outside '0'..'3' at index k sets bit
\* n-1-k of neither x nor y and does not stop the loop: every other index
\* contributes its bits, the loop body runs exactly n times (one line is
\* printed per invalid character), and 0 <= x, y < 2^n
C10_InvalidDigitSkipped ==
    \A t \in Calls :
       (Decoding(t) /\ pc[t] = "done") =>
          LET q == fr[t].quadkey
              n == Len(q)
              x == ret[t].value[1]
              y == ret[t].value[2]
          IN  /\ ret[t].kind = "return"
              /\ \A k \in 0..(n - 1) :
                    IF q[k + 1] \in ValidDigits
                       THEN DigitBits(q, k, x, y)
                       ELSE Bit(x, (n - 1) - k) = 0 /\ Bit(y, (n - 1) - k) = 0
              /\ fr[t].iters = n
              /\ fr[t].it = 0
              /\ 0 <= x /\ x < 2 ^ n
              /\ 0 <= y /\ y < 2 ^ n

C10_Witness ==
    /\ Decoding(Main) /\ pc[Main] = "done"
    /\ fr[Main].quadkey = <<"5", "3">>
    /\ ret[Main] = Return(<<1, 1>>)
    /\ fr[Main].iters = 2
    /\ Len(stdout) = 1
InVertices(t) == fr[t].fn = "get_tile_vertices"

\* C3: get_tile_vertices with a zoom level outside 1..16 ends in a failure
\* (the KeyError of the lookup) for every center point and never returns;
\* with a zoom level in 1..16 the lookup succeeds
C3_ZoomDomain ==
    \A t \in Calls :
       (InVertices(t) /\ pc[t] \notin {"gv144", "gv162"}) =>
          IF fr[t].tile_size \in FirstZoom..LastZoom
             THEN /\ pc[t] # "raised"
                  /\ ret[t].kind # "raise"
                  /\ fr[t].length = 2 ^ ((LastZoom + 1) - fr[t].tile_size)
             ELSE /\ pc[t] = "raised"
                  /\ ret[t] = Raise("KeyError", fr[t].tile_size)

C3_Witness ==
    /\ InVertices(Main) /\ pc[Main] = "raised"
    /\ fr[Main].tile_size = LastZoom + 1
    /\ fr[Main].lat = 52
    /\ ret[Main] = Raise("KeyError", LastZoom + 1)

\* the Mercator point (y, x) a returned vertex (lon, lat) is the inverse
\* projection of
MercatorOf(p) == <<p[2].deg_of, p[1].deg_of>>
\* the inverse projection undoes the projection only on the same radius
SameRadius(p) == /\ p[1].radius = p[1].deg_of.radius
                 /\ p[2].radius = p[2].deg_of.radius

\* C6: for every center and every zoom level in 1..16 the four points
\* returned are, in order, the inverse projections of (y+len/2, x-len/2),
\* (y+len/2, x+len/2), (y-len/2, x-len/2), (y-len/2, x+len/2), with (y, x)
\* the projection of the center and len the table entry; where y is finite
\* the four Mercator points have (y, x) as their midpoint
C6_TileCorners ==
    \A t \in Calls :
       (InVertices(t) /\ pc[t] = "done") =>
          LET yx == spherical_to_mercator_coordinates(fr[t].lon, fr[t].lat)
              y == yx[1]
              x == yx[2]
              h == 2 ^ (LastZoom - fr[t].tile_size)
              v == ret[t].value
              m == [k \in 1..4 |-> MercatorOf(v[k])]
          IN  /\ ret[t].kind = "return"
              /\ fr[t].tile_size \in FirstZoom..LastZoom
              /\ 2 * h = TileLengthTable[fr[t].tile_size]
              /\ v[1] = mercator_to_spherical_coordinates(Plus(y, h), Plus(x, -h))
              /\ v[2] = mercator_to_spherical_coordinates(Plus(y, h), Plus(x, h))
              /\ v[3] = mercator_to_spherical_coordinates(Plus(y, -h), Plus(x, -h))
              /\ v[4] = mercator_to_spherical_coordinates(Plus(y, -h), Plus(x, h))
              /\ \A k \in 1..4 : SameRadius(v[k])
              /\ y.cls = "fin" =>
                    /\ \A k \in 1..4 : /\ m[k][1].cls = "fin"
                                       /\ m[k][1].axis = "y"
                                       /\ m[k][1].arg = y.arg
                                       /\ m[k][2].axis = "x"
                                       /\ m[k][2].arg = x.arg
                    /\ m[1][1].off + m[2][1].off + m[3][1].off + m[4][1].off
                          = 4 * y.off
                    /\ m[1][2].off + m[2][2].off + m[3][2].off + m[4][2].off
                          = 4 * x.off

C6_Witness ==
    /\ InVertices(Main) /\ pc[Main] = "done"
    /\ fr[Main].tile_size = LastZoom - 1
    /\ fr[Main].lon = 13 /\ fr[Main].lat = 52
    /\ MercatorOf(ret[Main].value[4]) =
          <<Plus(MercY(earth_radius, 52), -2), Plus(MercX(earth_radius, 13), 2)>>

\* C7: a latitude at or beyond +/-90 degrees given to
\* spherical_to_mercator_coordinates, directly or through get_tile_vertices,
\* is rejected with an error before any computation: no Mercator point is
\* returned for it
C7_PoleRejected ==
    \A t \in Calls :
       /\ (fr[t].fn = "spherical_to_mercator_coordinates" /\ Ended(t)
             /\ (fr[t].lat >= 90 \/ fr[t].lat <= -90)) =>
             ret[t].kind = "raise"
       /\ (InVertices(t) /\ (fr[t].lat >= 90 \/ fr[t].lat <= -90)) =>
             pc[t] \notin {"gv164", "gv165", "gv166", "gv167", "gv168", "done"}

\* C9 (the round trip of the two projections within 1e-9) is a bound on the
\* rounding of doubles through log, tan, exp and arctan; the exact
\* coordinates above carry no rounding, so it is not stated here.

Searching(t) == fr[t].fn \in {"search_edges", "search_nodes", "search_graphs"}
HasKeys(item, kw) == \A j \in DOMAIN kw : kw[j][1] \in DOMAIN DataOf(item)
\* the element's mapping equals the query on every queried key; an absent
\* key is a non-match
EqualOnQuery(item, kw) ==
    \A j \in DOMAIN kw :
       /\ kw[j][1] \in DOMAIN DataOf(item)
       /\ DataOf(item)[kw[j][1]] = kw[j][2]
Matching(items, kw) == SelectSeq(items, LAMBDA item : EqualOnQuery(item, kw))
\* e is an element paired with the attribute mapping d
PairedWith(e, d) == e.py = "tuple" /\ e.elts[Len(e.elts)] = d

\* C4: an element whose mapping lacks a queried key is a non-match: the
\* search completes without a missing-key fault and returns the elements
\* that match, the others among them evaluated as usual
C4_AbsentKeyIsNonMatch ==
    \A t \in Calls :
       (Searching(t) /\ Ended(t)
          /\ \E k \in DOMAIN fr[t].items : ~HasKeys(fr[t].items[k], fr[t].kwargs)) =>
          /\ ret[t].kind = "return"
          /\ ret[t].value = Matching(fr[t].items, fr[t].kwargs)

SearchResultIsFilter(t) ==
    /\ ret[t].kind = "return"
    /\ ret[t].value = Matching(fr[t].items, fr[t].kwargs)
    /\ (\A k \in DOMAIN fr[t].items : ~EqualOnQuery(fr[t].items[k], fr[t].kwargs))
          => ret[t].value = <<>>
    /\ fr[t].kwargs = <<>> => ret[t].value = fr[t].items

AllHaveKeys(t) ==
    \A k \in DOMAIN fr[t].items : HasKeys(fr[t].items[k], fr[t].kwargs)

\* C5 as stated: with every queried key present on every element, each of
\* the three searches returns exactly the matching elements, in input order,
\* each paired with its attribute mapping; empty when nothing matches, the
\* whole input when the query is empty
C5_Original ==
    \A t \in Calls :
       (Searching(t) /\ Ended(t) /\ AllHaveKeys(t)) =>
          /\ SearchResultIsFilter(t)
          /\ \A k \in DOMAIN ret[t].value :
                PairedWith(ret[t].value[k], DataOf(ret[t].value[k]))

\* C5 amended: with every queried key present on every element, each of the
\* three searches returns exactly the matching elements, in input order;
\* search_edges and search_nodes return each as a tuple ending in its
\* attribute mapping, search_graphs returns the graph objects themselves
\* (each carrying its mapping as .graph); empty when nothing matches, the
\* whole input when the query is empty
C5_SearchFilters ==
    \A t \in Calls :
       (Searching(t) /\ Ended(t) /\ AllHaveKeys(t)) =>
          /\ SearchResultIsFilter(t)
          /\ \A k \in DOMAIN ret[t].value :
                LET e == ret[t].value[k]
                IN  IF fr[t].fn = "search_graphs"
                       THEN e.py = "Graph"
                       ELSE PairedWith(e, DataOf(e))

C5_Witness ==
    /\ fr[Main].fn = "search_graphs" /\ pc[Main] = "done"
    /\ fr[Main].kwargs = <<<<"a", 1>>, <<"b", 2>>>>
    /\ Len(fr[Main].items) = 2
    /\ AllHaveKeys(Main)
    /\ ret[Main] = Return(<<Graph(2, [a |-> 1, b |-> 2])>>)

RECURSIVE DecodeAlone(_)
\* the decoder as a function of its argument alone
DecodeAlone(q) ==
    IF q = <<>> THEN <<0, 0>>
    ELSE LET r == DecodeAlone(Tail(q))
             m == 2 ^ (Len(q) - 1)
         IN  <<r[1] + (IF Head(q) \in {"1", "3"} THEN m ELSE 0),
               r[2] + (IF Head(q) \in {"2", "3"} THEN m ELSE 0)>>

\* get_tile_vertices as a function of its arguments alone
VerticesAlone(lon, lat, z) ==
    IF z \notin FirstZoom..LastZoom THEN Raise("KeyError", z)
    ELSE LET yx == spherical_to_mercator_coordinates(lon, lat)
             h == 2 ^ (LastZoom - z)
         IN  Return(<<mercator_to_spherical_coordinates(Plus(yx[1], h), Plus(yx[2], -h)),
                      mercator_to_spherical_coordinates(Plus(yx[1], h), Plus(yx[2], h)),
                      mercator_to_spherical_coordinates(Plus(yx[1], -h), Plus(yx[2], -h)),
                      mercator_to_spherical_coordinates(Plus(yx[1], -h), Plus(yx[2], h))>>)

\* what the call with frame f returns when nothing else runs
Alone(f) ==
    CASE f.fn = "quadkey_to_tile_coordinates" -> Return(DecodeAlone(f.quadkey))
      [] f.fn = "spherical_to_mercator_coordinates" ->
            Return(spherical_to_mercator_coordinates(f.lon, f.lat))
      [] f.fn = "mercator_to_spherical_coordinates" ->
            Return(mercator_to_spherical_coordinates(f.y, f.x))
      [] f.fn = "orthodrome_length" ->
            Return(orthodrome_length(f.lat1, f.lon1, f.lat2, f.lon2))
      [] f.fn = "get_tile_vertices" -> VerticesAlone(f.lon, f.lat, f.tile_size)

====
